---- MODULE Spec2Model ----
(***************************************************************************)
(* The repo-story visualizer of make_repo_story_html.py: the generator     *)
(* (main and build_data, which read the git log and the tag references and *)
(* write the page) and the script of the generated page (lane assignment,  *)
(* view cursor, playback timer, pan and zoom) as a state machine driven by *)
(* the browser's events.                                                   *)
(*                                                                         *)
(* zoom is a JavaScript number; it is modelled in fixed point, in          *)
(* hundredths (1.0 is 100), and a product is truncated to a hundredth.     *)
(***************************************************************************)
EXTENDS Integers, Sequences, FiniteSets, TLC

VARIABLES
    pc,          \* main(): "main", "built" (build_data has returned), "written",
                 \* or "failed" (an exception left main)
    outFile,     \* the content of repo_story_standalone.html
    commits,     \* data.commits: the commit sequence, oldest first
    tags,        \* data.tags: hash -> tag names
    hashToIndex, \* Map hash -> index in commits
    pos,         \* Map hash -> {x, y, laneCount}, filled by assignLanes
    laneCount,   \* assignLanes' local laneCount, as it returns
    phase,       \* the page: "closed", "load" while the script is being
                 \* evaluated, then "running"
    playTimer,   \* the interval id of the playback timer, or Null
    intervals,   \* the browser's active interval ids
    playLabel,   \* playBtn.textContent
    visibleN,    \* the view cursor
    slider,      \* the range input: [max, value]
    zoom, panX, panY,
    dragging, lastMouse,
    canvasW, canvasH,
    lastDraw,    \* the last draw(): the cursor and the view it read
    event        \* the step that ran last; for scrub with its argument, for
                 \* wheel with its argument and the zoom it found, for
                 \* build_data with what git printed

vars == <<pc, outFile,
          commits, tags, hashToIndex, pos, laneCount, phase, playTimer, intervals,
          playLabel, visibleN, slider, zoom, panX, panY, dragging, lastMouse,
          canvasW, canvasH, lastDraw, event>>

genVars == <<pc, outFile>>
dataVars == <<commits, tags, hashToIndex>>
laneVars == <<pos, laneCount>>
timerVars == <<playTimer, intervals, playLabel>>
cursorVars == <<visibleN, slider, lastDraw>>
cameraVars == <<zoom, panX, panY>>
mouseVars == <<dragging, lastMouse>>
canvasVars == <<canvasW, canvasH>>
pageVars == <<hashToIndex, laneVars, phase, timerVars, cursorVars, cameraVars, mouseVars,
              canvasVars>>

----------------------------------------------------------------------------
(* Bounds of the model *)

MaxCommits == 3     \* longest history whose lanes are checked
MaxTimers == 2      \* interval ids the browser hands out
MaxPan == 2         \* pan is explored up to MaxPan * Dpr pixels each way
MaxZoomDrift == 1   \* Spec explores wheel events only this near the default zoom
MaxTime == 2        \* author times of the log lines are in 1..MaxTime

(* Program constants *)

ResetVisible == 50  \* Math.min(50, commits.length)
ZoomDefault == 100  \* zoom = 1.0
ZoomMin == 20       \* 0.2
ZoomMax == 500      \* 5
FactorIn == 108     \* 1.08
FactorOut == 92     \* 0.92
FactorDen == 100
DefaultCanvasW == 300
DefaultCanvasH == 150

(* The environment *)

Dpr == 2            \* devicePixelRatio
PointerPositions == {<<0, 0>>, <<1, 2>>}     \* clientX, clientY
ContainerRects == {<<1, 1>>, <<2, 1>>}       \* getBoundingClientRect: width, height
WheelDeltas == {-1, 0, 1}                    \* e.deltaY

Null == 0           \* playTimer = null (interval ids are > 0)
NoMouse == <<>>     \* lastMouse = null
Undefined == "undefined"   \* c.parents[0] of a root commit

NoTags == [h \in {} |-> <<>>]   \* tags = {}, an empty Map

\* Map.set(k, v), d[k] = v
MapSet(m, k, v) == (k :> v) @@ m

Max(a, b) == IF a >= b THEN a ELSE b
Min(a, b) == IF a <= b THEN a ELSE b
Abs(a) == IF a >= 0 THEN a ELSE -a

----------------------------------------------------------------------------
(* The data bundle *)

Hash(i) == "h" \o ToString(i)
AbsentHash == "absent"   \* a parent hash with no commit in the data

ParentLists(S) ==
    {<<>>} \cup {<<a>> : a \in S}
           \cup {<<p[1], p[2]>> : p \in {q \in S \X S : q[1] # q[2]}}

HashesOf(n) == {Hash(j) : j \in 1..n} \cup {AbsentHash}

\* Every history of n commits with unique hashes: commit i has hash Hash(i)
\* and up to two distinct parents, each another commit (earlier or later in
\* time order) or a commit that is not in the data.
RECURSIVE HistoryPrefixes(_, _)
HistoryPrefixes(n, i) ==
    IF i = 0 THEN {<<>>}
    ELSE {Append(cs, [hash |-> Hash(i), parents |-> ps]) :
             cs \in HistoryPrefixes(n, i - 1),
             ps \in ParentLists(HashesOf(n) \ {Hash(i)})}

HistoriesOfLength(n) == HistoryPrefixes(n, n)

Chain(n) ==
    [i \in 1..n |-> [hash |-> Hash(i),
                     parents |-> IF i = 1 THEN <<>> ELSE <<Hash(i - 1)>>]]

\* The tag maps a history is given: none, or a tag on its oldest commit.
TagMaps(cs) ==
    {NoTags} \cup {[h \in {cs[i].hash} |-> <<"v1">>] : i \in 1..Min(1, Len(cs))}

Bundles(H) == UNION {{[commits |-> cs, tags |-> t] : t \in TagMaps(cs)} : cs \in H}

\* The histories the event loop is explored on: every history of at most one
\* commit, and a linear history longer than the reset cursor.
ViewBundles ==
    Bundles(HistoriesOfLength(0) \cup HistoriesOfLength(1))
        \cup {[commits |-> Chain(ResetVisible + 1), tags |-> NoTags]}

\* The histories the wheel is explored on over the whole zoom range.
ZoomBundles == Bundles(HistoriesOfLength(0) \cup HistoriesOfLength(1))

\* The histories start() is explored on: those of ZoomBundles and every
\* linear history up to one longer than the reset cursor.
StartBundles ==
    ZoomBundles \cup {[commits |-> Chain(n), tags |-> NoTags] : n \in 0..(ResetVisible + 1)}

----------------------------------------------------------------------------
(* The generator: what git prints, and build_data *)

\* sh(): check_output returns what the command printed, or raises
Printed(lines) == [ok |-> TRUE, lines |-> lines]
Failure == [ok |-> FALSE, lines |-> <<>>]
\* The page out.write_text writes: the template with the bundle in place of
\* __DATA_JSON__.
Html(cs, t) == [commits |-> cs, tags |-> t]

\* The output file: no file, or a file with its content.
NoFile == <<>>
FileWith(text) == <<text>>
\* the page an earlier run wrote
StaleFile == FileWith(Html(<<[hash |-> "old", parents |-> <<>>, time |-> 1]>>, NoTags))

\* What `git log` prints: a failure, or up to MaxCommits lines <<%H, %P, %at>>,
\* newest commit first, each with no parent or with the commit of the next
\* line as its parent, the author times in any order.
LogLines(n, i) ==
    {<<Hash(n + 1 - i), ps, t>> :
        ps \in IF i < n THEN {<<>>, <<Hash(n - i)>>} ELSE {<<>>},
        t \in 1..MaxTime}

RECURSIVE LogPrefixes(_, _)
LogPrefixes(n, i) ==
    IF i = 0 THEN {<<>>}
    ELSE {Append(log, l) : log \in LogPrefixes(n, i - 1), l \in LogLines(n, i)}

GitLogs == {Failure} \cup {Printed(log) : log \in UNION {LogPrefixes(n, n) : n \in 0..MaxCommits}}

\* A line of `git show-ref --tags -d`: the sha, and the ref refs/tags/<name>,
\* with ^{} appended on the line of the commit an annotated tag points to.
RefLine(sha, name, peeled) == <<sha, [path |-> <<"refs", "tags">>, name |-> name, peeled |-> peeled]>>

\* What `git show-ref` prints: a failure when the repository has no tag, else
\* a lightweight tag, an annotated tag, or two tags on one commit.
TagRefs ==
    {Failure,
     Printed(<<RefLine(Hash(1), "v1", FALSE)>>),
     Printed(<<RefLine("tagobject", "v1", FALSE), RefLine(Hash(1), "v1", TRUE)>>),
     Printed(<<RefLine(Hash(1), "v1", FALSE), RefLine(Hash(1), "v2", FALSE)>>)}

\* The dict build_data appends for a line of the log.
ParseLine(l) == [hash |-> l[1], parents |-> l[2], time |-> l[3]]

ParseLog(log) == [i \in 1..Len(log) |-> ParseLine(log[i])]

\* Inserting c before the commits of the same time.
InsertBeforeTies(sorted, c) ==
    LET k == Cardinality({i \in 1..Len(sorted) : sorted[i].time < c.time})
    IN SubSeq(sorted, 1, k) \o <<c>> \o SubSeq(sorted, k + 1, Len(sorted))

\* list.sort places c after the sorted commits whose time is not larger
\* (binary insertion, to the right of equal keys).
InsertByTime(sorted, c) ==
    LET k == Cardinality({i \in 1..Len(sorted) : sorted[i].time <= c.time})
    IN SubSeq(sorted, 1, k) \o <<c>> \o SubSeq(sorted, k + 1, Len(sorted))

RECURSIVE SortLoop(_, _, _)
SortLoop(cs, i, sorted) ==
    IF i > Len(cs) \/ Len(sorted) < 0   \* (the second disjunct only evaluates sorted)
    THEN sorted
    ELSE SortLoop(cs, i + 1, InsertByTime(sorted, cs[i]))

\* commits.sort(key=lambda c: c["time"])
SortByTime(cs) == SortLoop(cs, 1, <<>>)

\* ref.split("/")[-1].replace("^{}", "")
TagName(ref) == ref.name

\* tags.setdefault(sha, []).append(tag)
TagAppend(t, sha, tag) ==
    MapSet(t, sha, IF sha \in DOMAIN t THEN Append(t[sha], tag) ELSE <<tag>>)

RECURSIVE TagLoop(_, _, _)
TagLoop(refs, i, t) ==
    IF i > Len(refs) \/ Cardinality(DOMAIN t) < 0   \* (the second disjunct only evaluates t)
    THEN t
    ELSE TagLoop(refs, i + 1, TagAppend(t, refs[i][1], TagName(refs[i][2])))

\* the loop over tags_raw.splitlines()
TagsOf(refs) == TagLoop(refs, 1, NoTags)

----------------------------------------------------------------------------
(* assignLanes *)

\* allocLane forgetting to mark the slot it hands out.
AllocLaneNotMarking(used) ==
    IF \E i \in 1..Len(used) : ~used[i]
    THEN LET i == CHOOSE j \in 1..Len(used) :
                      ~used[j] /\ \A k \in 1..(j - 1) : used[k]
         IN [lane |-> i - 1, used |-> used]
    ELSE [lane |-> Len(used), used |-> used]

\* allocLane(): the first slot not in use, else a new slot.
AllocLane(used) ==
    IF \E i \in 1..Len(used) : ~used[i]
    THEN LET i == CHOOSE j \in 1..Len(used) :
                      ~used[j] /\ \A k \in 1..(j - 1) : used[k]
         IN [lane |-> i - 1, used |-> [used EXCEPT ![i] = TRUE]]
    ELSE [lane |-> Len(used), used |-> Append(used, TRUE)]

\* LaneStep following the last parent instead of the first.
LaneStepLastParent(st, c) ==
    LET p0 == IF Len(c.parents) > 0 THEN c.parents[Len(c.parents)] ELSE Undefined
        hit == p0 # Undefined /\ p0 \in DOMAIN st.laneOf
        a == AllocLane(st.used)
        lane == IF hit THEN st.laneOf[p0] ELSE a.lane
    IN [laneOf |-> MapSet(st.laneOf, c.hash, lane),
        used |-> IF hit THEN st.used ELSE a.used]

\* One iteration of `for (const c of commits)`.
LaneStep(st, c) ==
    LET p0 == IF Len(c.parents) > 0 THEN c.parents[1] ELSE Undefined
        hit == p0 # Undefined /\ p0 \in DOMAIN st.laneOf
        a == AllocLane(st.used)
        lane == IF hit THEN st.laneOf[p0] ELSE a.lane
    IN [laneOf |-> MapSet(st.laneOf, c.hash, lane),
        used |-> IF hit THEN st.used ELSE a.used]

RECURSIVE LaneLoop(_, _, _)
LaneLoop(cs, i, st) ==
    IF i > Len(cs) \/ Len(st.used) < 0   \* (the second disjunct only evaluates st)
    THEN st
    ELSE LaneLoop(cs, i + 1, LaneStep(st, cs[i]))

MaxOf(S) == IF S = {} THEN 0 ELSE CHOOSE x \in S : \A y \in S : y <= x

\* LaneCountOf with the `+ 1` forgotten.
LaneCountOfLargestLane(lanes) == Max(1, MaxOf({lanes[h] : h \in DOMAIN lanes}))

\* Math.max(1, ...laneOf.values().map(v => v + 1))
LaneCountOf(lanes) == Max(1, MaxOf({lanes[h] + 1 : h \in DOMAIN lanes}))

\* pos after the second loop: the last index holding each hash.
PosOf(cs, lanes, count) ==
    [h \in {cs[i].hash : i \in 1..Len(cs)} |->
        LET i == CHOOSE j \in 1..Len(cs) :
                    cs[j].hash = h /\ \A k \in (j + 1)..Len(cs) : cs[k].hash # h
        IN [x |-> i - 1,
            y |-> IF h \in DOMAIN lanes THEN lanes[h] ELSE 0,
            laneCount |-> count]]

AssignLanes(cs) ==
    LET st == LaneLoop(cs, 1, [laneOf |-> NoTags, used |-> <<>>])
        count == LaneCountOf(st.laneOf)
    IN [laneCount |-> count, pos |-> PosOf(cs, st.laneOf, count)]

----------------------------------------------------------------------------
(* draw *)

\* new Map(commits.map((c, i) => [c.hash, i])): the last index (from 0)
\* holding each hash.
HashToIndexOf(cs) ==
    [h \in {cs[i].hash : i \in 1..Len(cs)} |->
        (CHOOSE j \in 1..Len(cs) :
            cs[j].hash = h /\ \A k \in (j + 1)..Len(cs) : cs[k].hash # h) - 1]

\* EdgesOf skipping only the parents past the cursor.
EdgesOfUpToCursor(c, n, p) ==
    IF c.hash \notin DOMAIN p THEN {}
    ELSE {<<c.hash, c.parents[k]>> :
             k \in {j \in 1..Len(c.parents) :
                      /\ c.parents[j] \in DOMAIN hashToIndex
                      /\ hashToIndex[c.parents[j]] <= n
                      /\ c.parents[j] \in DOMAIN p}}

\* The edges draw() strokes from commit c with the cursor at n and the
\* positions p.
EdgesOf(c, n, p) ==
    IF c.hash \notin DOMAIN p THEN {}
    ELSE {<<c.hash, c.parents[k]>> :
             k \in {j \in 1..Len(c.parents) :
                      /\ c.parents[j] \in DOMAIN hashToIndex
                      /\ hashToIndex[c.parents[j]] < n
                      /\ c.parents[j] \in DOMAIN p}}

\* draw() with the cursor at n and the positions p: the nodes it fills and
\* the edges it strokes.
Draw(n, p) ==
    [nodes |-> {commits[i].hash : i \in 1..n},
     edges |-> UNION {EdgesOf(commits[i], n, p) : i \in 1..n}]

\* What toScreen reads besides the positions: zoom, pan and the canvas size.
View(z, px, py, w, h) == [zoom |-> z, panX |-> px, panY |-> py, canvasW |-> w, canvasH |-> h]

CurrentView == View(zoom, panX, panY, canvasW, canvasH)

\* A call of draw(): the cursor and the view it reads.
DrawCall(n, v) == [visibleN |-> n, view |-> v]

\* What is on the canvas: the picture of the last draw().
Painted == Draw(lastDraw.visibleN, pos)

----------------------------------------------------------------------------
(* The initial state: the module-level declarations of the script *)

InitOn(B) ==
    /\ \E data \in B :
          /\ commits = data.commits
          /\ tags = data.tags
    /\ pc = "written"
    /\ outFile = FileWith(Html(commits, tags))
    /\ hashToIndex = HashToIndexOf(commits)
    /\ pos = NoTags
    /\ laneCount = 0
    /\ phase = "load"
    /\ playTimer = Null
    /\ intervals = {}
    /\ playLabel = "Play"
    /\ visibleN = 0
    /\ slider = [max |-> 0, value |-> 0]
    /\ zoom = ZoomDefault
    /\ panX = 0
    /\ panY = 0
    /\ dragging = FALSE
    /\ lastMouse = NoMouse
    /\ canvasW = DefaultCanvasW
    /\ canvasH = DefaultCanvasH
    /\ lastDraw = DrawCall(0, View(ZoomDefault, 0, 0, DefaultCanvasW, DefaultCanvasH))
    /\ event = <<"load">>

Init == InitOn(ViewBundles)

InitLanes ==
    \E n \in 0..MaxCommits :
        InitOn({[commits |-> cs, tags |-> NoTags] : cs \in HistoriesOfLength(n)})

InitZoom == InitOn(ZoomBundles)

InitStart == InitOn(StartBundles)

InitDraw ==
    \E n \in 0..(MaxCommits - 1) :
        InitOn({[commits |-> cs, tags |-> NoTags] : cs \in HistoriesOfLength(n)})

\* The state in which main() is called: the output file may be there from an
\* earlier run; no page is open.
InitBuild ==
    /\ pc = "main"
    /\ outFile \in {NoFile, StaleFile}
    /\ commits = <<>>
    /\ tags = NoTags
    /\ hashToIndex = NoTags
    /\ pos = NoTags
    /\ laneCount = 0
    /\ phase = "closed"
    /\ playTimer = Null
    /\ intervals = {}
    /\ playLabel = "Play"
    /\ visibleN = 0
    /\ slider = [max |-> 0, value |-> 0]
    /\ zoom = ZoomDefault
    /\ panX = 0
    /\ panY = 0
    /\ dragging = FALSE
    /\ lastMouse = NoMouse
    /\ canvasW = DefaultCanvasW
    /\ canvasH = DefaultCanvasH
    /\ lastDraw = DrawCall(0, View(ZoomDefault, 0, 0, DefaultCanvasW, DefaultCanvasH))
    /\ event = <<"run">>

----------------------------------------------------------------------------
(* The functions of the script *)

\* resize(): the canvas takes the container's size (its draw() is written
\* where resize() is called: in start() another draw() follows it).
ResizeTo(rect) ==
    /\ canvasW' = rect[1] * Dpr
    /\ canvasH' = rect[2] * Dpr

\* setVisible without the clamp.
SetVisibleUnclamped(n, smax, v) ==
    /\ visibleN' = n
    /\ slider' = [max |-> smax, value |-> visibleN']
    /\ lastDraw' = DrawCall(visibleN', v)

\* setVisible(n) with the slider's maximum at smax, its draw() reading the
\* view v.
SetVisibleWith(n, smax, v) ==
    /\ visibleN' = Max(0, Min(n, Len(commits)))
    /\ slider' = [max |-> smax, value |-> visibleN']
    /\ lastDraw' = DrawCall(visibleN', v)

SetVisible(n) == SetVisibleWith(n, slider.max, CurrentView)

\* togglePlay forgetting clearInterval.
TogglePlayLeaking ==
    IF playTimer # Null
    THEN /\ intervals' = intervals
         /\ playTimer' = Null
         /\ playLabel' = "Play"
    ELSE \E id \in (1..MaxTimers) \ intervals :
            /\ playTimer' = id
            /\ intervals' = intervals \cup {id}
            /\ playLabel' = "Pause"

\* togglePlay(): clears the running timer, or starts one.
TogglePlay ==
    IF playTimer # Null
    THEN /\ intervals' = intervals \ {playTimer}
         /\ playTimer' = Null
         /\ playLabel' = "Play"
    ELSE \E id \in (1..MaxTimers) \ intervals :
            /\ playTimer' = id
            /\ intervals' = intervals \cup {id}
            /\ playLabel' = "Pause"

\* The callback stopping playback in the tick that reaches the end.
TimerCallbackStoppingAtEnd ==
    IF visibleN + 1 >= Len(commits)
    THEN SetVisible(visibleN + 1) /\ TogglePlay
    ELSE SetVisible(visibleN + 1) /\ UNCHANGED timerVars

\* The callback stopping only once the cursor is past the end.
TimerCallbackPastEnd ==
    IF visibleN > Len(commits)
    THEN TogglePlay /\ UNCHANGED cursorVars
    ELSE SetVisible(visibleN + 1) /\ UNCHANGED timerVars

\* The callback showing the same commits again.
TimerCallbackStalling ==
    IF visibleN >= Len(commits)
    THEN TogglePlay /\ UNCHANGED cursorVars
    ELSE SetVisible(visibleN) /\ UNCHANGED timerVars

\* The callback of setInterval in togglePlay.
TimerCallback ==
    IF visibleN >= Len(commits)
    THEN TogglePlay /\ UNCHANGED cursorVars
    ELSE SetVisible(visibleN + 1) /\ UNCHANGED timerVars

\* The wheel handler without the clamp.
ZoomedUnclamped(z, deltaY) ==
    LET factor == IF deltaY > 0 THEN FactorOut ELSE FactorIn
    IN (z * factor) \div FactorDen

\* The wheel handler zooming out by the inverse of the zoom-in factor.
ZoomedReciprocal(z, deltaY) ==
    LET scaled == IF deltaY > 0 THEN (z * FactorDen) \div FactorIn
                  ELSE (z * FactorIn) \div FactorDen
    IN Max(ZoomMin, Min(scaled, ZoomMax))

\* The wheel handler's new zoom.
Zoomed(z, deltaY) ==
    LET factor == IF deltaY > 0 THEN FactorOut ELSE FactorIn
    IN Max(ZoomMin, Min((z * factor) \div FactorDen, ZoomMax))

----------------------------------------------------------------------------
(* The steps of main *)

\* build_data with a failing log read as an empty log.
BuildDataIgnoringFailure(log, refs) ==
    /\ pc = "main"
    /\ commits' = IF log = Failure THEN <<>> ELSE SortByTime(ParseLog(log.lines))
    /\ tags' = IF refs = Failure THEN NoTags ELSE TagsOf(refs.lines)
    /\ pc' = "built"
    /\ event' = <<"build_data", log, refs>>
    /\ UNCHANGED <<outFile, pageVars>>

\* build_data without the try around the tag lookup.
BuildDataTagsFatal(log, refs) ==
    /\ pc = "main"
    /\ IF log = Failure \/ refs = Failure
       THEN /\ pc' = "failed"
            /\ UNCHANGED <<commits, tags>>
       ELSE /\ commits' = SortByTime(ParseLog(log.lines))
            /\ tags' = TagsOf(refs.lines)
            /\ pc' = "built"
    /\ event' = <<"build_data", log, refs>>
    /\ UNCHANGED <<outFile, pageVars>>

\* data = build_data(), git printing log and refs: the exception of the log
\* command leaves main, the exception of the tag lookup is caught.
BuildData(log, refs) ==
    /\ pc = "main"
    /\ IF log = Failure
       THEN /\ pc' = "failed"
            /\ UNCHANGED <<commits, tags>>
       ELSE /\ commits' = SortByTime(ParseLog(log.lines))
            /\ tags' = IF refs = Failure THEN NoTags ELSE TagsOf(refs.lines)
            /\ pc' = "built"
    /\ event' = <<"build_data", log, refs>>
    /\ UNCHANGED <<outFile, pageVars>>

\* the rest of main: out.write_text(html)
WriteHtml ==
    /\ pc = "built"
    /\ outFile' = FileWith(Html(commits, tags))
    /\ pc' = "written"
    /\ event' = <<"write_text">>
    /\ UNCHANGED <<commits, tags, pageVars>>

----------------------------------------------------------------------------
(* The steps of the event loop *)

\* start() showing every commit.
StartShowingAll ==
    /\ phase = "load"
    /\ phase' = "running"
    /\ LET r == AssignLanes(commits)
       IN /\ pos' = r.pos
          /\ laneCount' = r.laneCount
          /\ \E rect \in ContainerRects :
                /\ ResizeTo(rect)
                /\ SetVisibleWith(Len(commits), Len(commits),
                                  View(zoom, panX, panY, rect[1] * Dpr, rect[2] * Dpr))
    /\ event' = <<"start">>
    /\ UNCHANGED <<genVars, dataVars, timerVars, cameraVars, mouseVars>>

\* start(), which ends the evaluation of the script.
Start ==
    /\ phase = "load"
    /\ phase' = "running"
    /\ LET r == AssignLanes(commits)
       IN /\ pos' = r.pos
          /\ laneCount' = r.laneCount
          /\ \E rect \in ContainerRects :
                /\ ResizeTo(rect)
                /\ SetVisibleWith(Min(ResetVisible, Len(commits)), Len(commits),
                                  View(zoom, panX, panY, rect[1] * Dpr, rect[2] * Dpr))
    /\ event' = <<"start">>
    /\ UNCHANGED <<genVars, dataVars, timerVars, cameraVars, mouseVars>>

\* click on the Play button
PlayClick ==
    /\ phase = "running"
    /\ TogglePlay
    /\ event' = <<"play">>
    /\ UNCHANGED <<genVars, dataVars, laneVars, phase, cursorVars, cameraVars, mouseVars, canvasVars>>

\* the interval t fires
Tick(t) ==
    /\ phase = "running"
    /\ t \in intervals
    /\ TimerCallback
    /\ event' = <<"tick">>
    /\ UNCHANGED <<genVars, dataVars, laneVars, phase, cameraVars, mouseVars, canvasVars>>

\* The Reset handler showing every commit.
ResetClickShowingAll ==
    /\ phase = "running"
    /\ IF playTimer # Null THEN TogglePlay ELSE UNCHANGED timerVars
    /\ zoom' = ZoomDefault
    /\ panX' = 0
    /\ panY' = 0
    /\ SetVisibleWith(Len(commits), slider.max, View(ZoomDefault, 0, 0, canvasW, canvasH))
    /\ event' = <<"reset">>
    /\ UNCHANGED <<genVars, dataVars, laneVars, phase, mouseVars, canvasVars>>

\* click on the Reset button
ResetClick ==
    /\ phase = "running"
    /\ IF playTimer # Null THEN TogglePlay ELSE UNCHANGED timerVars
    /\ zoom' = ZoomDefault
    /\ panX' = 0
    /\ panY' = 0
    /\ SetVisibleWith(Min(ResetVisible, Len(commits)), slider.max,
                      View(ZoomDefault, 0, 0, canvasW, canvasH))
    /\ event' = <<"reset">>
    /\ UNCHANGED <<genVars, dataVars, laneVars, phase, mouseVars, canvasVars>>

\* The slider handler pausing playback.
ScrubPausing(n) ==
    /\ phase = "running"
    /\ SetVisible(n)
    /\ IF playTimer # Null THEN TogglePlay ELSE UNCHANGED timerVars
    /\ event' = <<"scrub", n>>
    /\ UNCHANGED <<genVars, dataVars, laneVars, phase, cameraVars, mouseVars, canvasVars>>

\* input on the slider, its value read as n
Scrub(n) ==
    /\ phase = "running"
    /\ SetVisible(n)
    /\ event' = <<"scrub", n>>
    /\ UNCHANGED <<genVars, dataVars, laneVars, phase, timerVars, cameraVars, mouseVars, canvasVars>>

\* The slider values tried: around both ends of the range, beyond them too.
ScrubInputs == {-1, 0, 1, Len(commits) - 1, Len(commits), Len(commits) + 1}

MouseDown(p) ==
    /\ phase = "running"
    /\ dragging' = TRUE
    /\ lastMouse' = p
    /\ event' = <<"mousedown">>
    /\ UNCHANGED <<genVars, dataVars, laneVars, phase, timerVars, cursorVars, cameraVars, canvasVars>>

MouseUp ==
    /\ phase = "running"
    /\ dragging' = FALSE
    /\ event' = <<"mouseup">>
    /\ UNCHANGED <<genVars, dataVars, laneVars, phase, timerVars, cursorVars, cameraVars, lastMouse,
                   canvasVars>>

\* The mousemove handler measuring every move from the press position.
MouseMoveFromPress(p) ==
    /\ phase = "running"
    /\ IF ~dragging
       THEN UNCHANGED <<panX, panY, lastMouse, lastDraw>>
       ELSE /\ panX' = panX + (p[1] - lastMouse[1]) * Dpr
            /\ panY' = panY + (p[2] - lastMouse[2]) * Dpr
            /\ lastMouse' = lastMouse
            /\ lastDraw' = DrawCall(visibleN, View(zoom, panX', panY', canvasW, canvasH))
    /\ Abs(panX') <= MaxPan * Dpr
    /\ Abs(panY') <= MaxPan * Dpr
    /\ event' = <<"mousemove">>
    /\ UNCHANGED <<genVars, dataVars, laneVars, phase, timerVars, visibleN, slider, zoom, dragging,
                   canvasVars>>

MouseMove(p) ==
    /\ phase = "running"
    /\ IF ~dragging
       THEN UNCHANGED <<panX, panY, lastMouse, lastDraw>>
       ELSE /\ panX' = panX + (p[1] - lastMouse[1]) * Dpr
            /\ panY' = panY + (p[2] - lastMouse[2]) * Dpr
            /\ lastMouse' = p
            /\ lastDraw' = DrawCall(visibleN, View(zoom, panX', panY', canvasW, canvasH))
    /\ Abs(panX') <= MaxPan * Dpr
    /\ Abs(panY') <= MaxPan * Dpr
    /\ event' = <<"mousemove">>
    /\ UNCHANGED <<genVars, dataVars, laneVars, phase, timerVars, visibleN, slider, zoom, dragging,
                   canvasVars>>

Wheel(deltaY) ==
    /\ phase = "running"
    /\ zoom' = Zoomed(zoom, deltaY)
    /\ lastDraw' = DrawCall(visibleN, View(zoom', panX, panY, canvasW, canvasH))
    /\ event' = <<"wheel", deltaY, zoom>>
    /\ UNCHANGED <<genVars, dataVars, laneVars, phase, timerVars, visibleN, slider, panX, panY,
                   mouseVars, canvasVars>>

\* The wheel events Spec explores: those that start near the default zoom.
WheelNearDefault(deltaY) ==
    /\ Abs(zoom - ZoomDefault) <= MaxZoomDrift
    /\ Wheel(deltaY)

\* The resize handler putting the graph back at the origin.
ResizeRecentring(rect) ==
    /\ phase = "running"
    /\ ResizeTo(rect)
    /\ panX' = 0
    /\ panY' = 0
    /\ lastDraw' = DrawCall(visibleN, View(zoom, 0, 0, rect[1] * Dpr, rect[2] * Dpr))
    /\ event' = <<"resize">>
    /\ UNCHANGED <<genVars, dataVars, laneVars, phase, timerVars, visibleN, slider, zoom, mouseVars>>

\* resize of the window
Resize(rect) ==
    /\ phase = "running"
    /\ ResizeTo(rect)
    /\ lastDraw' = DrawCall(visibleN, View(zoom, panX, panY, rect[1] * Dpr, rect[2] * Dpr))
    /\ event' = <<"resize">>
    /\ UNCHANGED <<genVars, dataVars, laneVars, phase, timerVars, visibleN, slider, cameraVars,
                   mouseVars>>

----------------------------------------------------------------------------
(* Specifications *)

Next ==
    \/ Start
    \/ PlayClick
    \/ \E t \in intervals : Tick(t)
    \/ ResetClick
    \/ \E n \in ScrubInputs : Scrub(n)
    \/ \E p \in PointerPositions : MouseDown(p)
    \/ MouseUp
    \/ \E p \in PointerPositions : MouseMove(p)
    \/ \E d \in WheelDeltas : WheelNearDefault(d)
    \/ \E rect \in ContainerRects : Resize(rect)

\* The event loop on the view histories.
Spec == Init /\ [][Next]_vars

\* The script's start on every history of up to MaxCommits commits.
NextLanes == Start

SpecLanes == InitLanes /\ [][NextLanes]_vars

\* The event loop without the pointer, the wheel over the whole zoom range.
NextZoom ==
    \/ Start
    \/ PlayClick
    \/ \E t \in intervals : Tick(t)
    \/ ResetClick
    \/ \E n \in ScrubInputs : Scrub(n)
    \/ \E d \in WheelDeltas : Wheel(d)

SpecZoom == InitZoom /\ [][NextZoom]_vars

\* A run of the generator.
NextBuild ==
    \/ \E log \in GitLogs, refs \in TagRefs : BuildData(log, refs)
    \/ WriteHtml

SpecBuild == InitBuild /\ [][NextBuild]_vars

\* Playback left alone: the user clicks and scrubs only while no timer runs,
\* and an active interval keeps firing.
NextPlay ==
    \/ Start
    \/ playTimer = Null /\ PlayClick
    \/ playTimer = Null /\ ResetClick
    \/ \E n \in ScrubInputs : playTimer = Null /\ Scrub(n)
    \/ \E t \in intervals : Tick(t)

SpecPlay == Init /\ [][NextPlay]_vars /\ WF_vars(\E t \in intervals : Tick(t))

\* The redraws of start, the slider and the window on every history of fewer
\* than MaxCommits commits.
NextDraw ==
    \/ Start
    \/ \E n \in ScrubInputs : Scrub(n)
    \/ \E rect \in ContainerRects : Resize(rect)

SpecDraw == InitDraw /\ [][NextDraw]_vars

\* The script's start on the start histories.
NextStart == Start

SpecStart == InitStart /\ [][NextStart]_vars

----------------------------------------------------------------------------
(* Properties *)

CommitCount == Len(commits)
Playing == playTimer # Null
Clamped(n) == Max(0, Min(n, CommitCount))
IndicesOf(h) == {j \in 1..CommitCount : commits[j].hash = h}
FirstParent(i) == commits[i].parents[1]
\* commit i has a first parent, and it occurs earlier in the sequence
FollowsEarlierParent(i) ==
    /\ Len(commits[i].parents) > 0
    /\ \E j \in 1..(i - 1) : commits[j].hash = FirstParent(i)
LaneAt(i) == pos[commits[i].hash].y

\* C1, as stated: no state reached by a playback tick has playback Playing
\* together with visibleN = commitCount (the tick that brings visibleN to
\* commitCount stops playback itself).
C1_TickAtEndIsIdle ==
    ~(event[1] = "tick" /\ Playing /\ visibleN = CommitCount)

\* C1, amended: a tick that fires with visibleN already at commitCount stops
\* playback and leaves visibleN alone; every other tick advances visibleN by
\* one and leaves the timer running, also when it brings visibleN to
\* commitCount.
C1_TickStopsOnlyAtEnd ==
    [][event'[1] = "tick" =>
          IF visibleN >= CommitCount
          THEN ~Playing' /\ intervals' = {} /\ visibleN' = visibleN
          ELSE visibleN' = visibleN + 1 /\ visibleN' <= CommitCount
               /\ playTimer' = playTimer /\ intervals' = intervals]_vars

C1_Witness ==
    /\ event[1] = "tick"
    /\ ~Playing
    /\ CommitCount > 0
    /\ visibleN = CommitCount

\* C2: in every reachable state visibleN is an integer with
\* 0 <= visibleN <= commitCount.
C2_VisibleInRange == visibleN \in 0..CommitCount

C2_Witness ==
    /\ event[1] = "scrub"
    /\ event[2] > CommitCount
    /\ visibleN = CommitCount
    /\ Playing
    /\ panX # 0
    /\ zoom # ZoomDefault

\* C3: the Reset action leaves zoom = 1.0, panX = 0, panY = 0,
\* visibleN = min(50, commitCount) and playback Idle, and it is possible in
\* every state of the running page.
C3_ResetRestores ==
    /\ event[1] = "reset" =>
          /\ zoom = ZoomDefault
          /\ panX = 0
          /\ panY = 0
          /\ visibleN = Min(ResetVisible, CommitCount)
          /\ ~Playing
          /\ intervals = {}
    /\ phase = "running" => ENABLED ResetClick

C3_Witness ==
    /\ event[1] = "reset"
    /\ CommitCount > ResetVisible
    /\ visibleN = ResetVisible

\* C4: at most one periodic timer is active, none while playback is Idle,
\* and a tick fires only while playback is Playing.
C4_NoTickWhileIdle ==
    /\ [](/\ Cardinality(intervals) <= 1
          /\ Playing => intervals = {playTimer}
          /\ ~Playing => intervals = {})
    /\ [][event'[1] = "tick" => Playing]_vars

\* playback was paused after ticks had advanced the cursor
C4_Witness ==
    /\ event[1] = "play"
    /\ ~Playing
    /\ intervals = {}
    /\ CommitCount > ResetVisible
    /\ visibleN \in 2..(ResetVisible - 1)

\* C5: assignLanes gives every commit exactly one lane, an integer >= 0, and
\* laneCount is 1 + the largest lane, or 1 when there are no commits.
C5_OneLanePerCommit ==
    phase = "running" =>
        /\ DOMAIN pos = {commits[i].hash : i \in 1..CommitCount}
        /\ \A i \in 1..CommitCount :
              /\ LaneAt(i) \in Nat
              /\ pos[commits[i].hash].laneCount = laneCount
        /\ laneCount >= 1
        /\ laneCount = IF CommitCount = 0 THEN 1
                       ELSE 1 + MaxOf({LaneAt(i) : i \in 1..CommitCount})

C5_Witness ==
    /\ phase = "running"
    /\ CommitCount = MaxCommits
    /\ laneCount = MaxCommits

\* C6: every commit whose first parent occurs earlier in the sequence is
\* assigned that first parent's lane, whatever its other parents are; a
\* linear chain in time order is on lane 0 throughout, with laneCount = 1.
C6_FirstParentLane ==
    phase = "running" =>
        /\ \A i \in 1..CommitCount :
              FollowsEarlierParent(i) => LaneAt(i) = pos[FirstParent(i)].y
        /\ commits = Chain(CommitCount) =>
              /\ \A i \in 1..CommitCount : LaneAt(i) = 0
              /\ laneCount = 1

\* a merge commit whose parents are on lanes 0 and 1, in this order
C6_Witness ==
    /\ phase = "running"
    /\ \E i \in 1..CommitCount :
          /\ Len(commits[i].parents) = 2
          /\ FollowsEarlierParent(i)
          /\ \E j \in 1..(i - 1) : commits[j].hash = commits[i].parents[2]
          /\ pos[commits[i].parents[1]].y = 0
          /\ pos[commits[i].parents[2]].y = 1
          /\ LaneAt(i) = 0

\* C7: for every commit c that takes its first parent p0's lane, no commit
\* placed strictly between p0 and c is assigned that lane (the first-parent
\* chain from c back to p0 is c and p0 themselves, so no commit between
\* them lies on it).
C7_LaneNotSharedBetween ==
    phase = "running" =>
        \A i \in 1..CommitCount :
            FollowsEarlierParent(i) =>
                \A j \in IndicesOf(FirstParent(i)) :
                    \A k \in (j + 1)..(i - 1) : LaneAt(k) # LaneAt(i)

\* C8: a scrub sets visibleN to the requested value clamped to
\* [0, commitCount] and leaves the playback state, its timer, zoom and pan
\* unchanged.
C8_ScrubOnlyMovesCursor ==
    [][event'[1] = "scrub" =>
          /\ visibleN' = Clamped(event'[2])
          /\ UNCHANGED <<playTimer, intervals, zoom, panX, panY>>]_vars

C8_Witness ==
    /\ event[1] = "scrub"
    /\ Playing
    /\ CommitCount > 0
    /\ visibleN = 0
    /\ zoom # ZoomDefault
    /\ panY # 0

\* C9: play-toggle, playback ticks, scrub and resize (and pointer press and
\* release) leave zoom, panX and panY unchanged, and after start no event
\* changes the commit sequence, the tag map or the lane assignment.
C9_CameraAndDataFrames ==
    [][/\ event'[1] \in {"play", "tick", "scrub", "resize", "mousedown", "mouseup"}
            => UNCHANGED <<zoom, panX, panY>>
       /\ phase = "running"
            => UNCHANGED <<commits, tags, hashToIndex, pos, laneCount>>]_vars

C9_Witness ==
    /\ event[1] = "resize"
    /\ Playing
    /\ zoom # ZoomDefault
    /\ panX # 0
    /\ panY # 0
    /\ CommitCount > ResetVisible
    /\ visibleN \in 2..(ResetVisible - 1)

\* C10: in every reachable state zoom lies in [0.2, 5]; each wheel event
\* multiplies zoom by 1.08 or by 0.92 and clamps the result to that range.
C10_ZoomInRange ==
    /\ [](ZoomMin <= zoom /\ zoom <= ZoomMax)
    /\ [][event'[1] = "wheel" =>
              \E f \in {FactorIn, FactorOut} :
                  zoom' = Max(ZoomMin, Min((zoom * f) \div FactorDen, ZoomMax))]_vars

\* a zoom-in held at the upper end of the range
C10_Witness ==
    /\ event[1] = "wheel"
    /\ zoom = ZoomMax

\* a zoom-in wheel event (deltaY <= 0) directly followed by a zoom-out one
ZoomInThenOut ==
    /\ event[1] = "wheel" /\ event[2] <= 0
    /\ event'[1] = "wheel" /\ event'[2] > 0
\* the product the wheel handler forms is in the range: the step is not clamped
UnclampedIn(z) == (z * FactorIn) \div FactorDen \in ZoomMin..ZoomMax
UnclampedOut(z) == (z * FactorOut) \div FactorDen \in ZoomMin..ZoomMax

\* C11, as stated: a zoom-in wheel event followed by a zoom-out wheel event
\* returns zoom exactly to its prior value whenever neither of the two steps
\* is clamped.
C11_RoundTripExact ==
    [][ZoomInThenOut /\ UnclampedIn(event[3]) /\ UnclampedOut(zoom)
          => zoom' = event[3]]_vars

\* C11, amended: a zoom-in followed by a zoom-out multiplies zoom by 1.08 and
\* then by 0.92 and so leaves it strictly below its prior value whenever
\* neither step is clamped; the final value is never above the prior value,
\* and equals it only when the prior value is the lower end of the range
\* (the zoom-out step is then clamped).
C11_RoundTripShrinks ==
    [][ZoomInThenOut =>
          /\ zoom' <= event[3]
          /\ zoom' = event[3] => event[3] = ZoomMin /\ ~UnclampedOut(zoom)
          /\ UnclampedIn(event[3]) /\ UnclampedOut(zoom) =>
                /\ zoom' = (((event[3] * FactorIn) \div FactorDen) * FactorOut) \div FactorDen
                /\ zoom' < event[3]]_vars

\* a zoom-out from 1.08, which a zoom-in from the default zoom gives
C11_Witness ==
    /\ event[1] = "wheel"
    /\ event[2] > 0
    /\ event[3] = (ZoomDefault * FactorIn) \div FactorDen
    /\ zoom = (event[3] * FactorOut) \div FactorDen
    /\ zoom < ZoomDefault

\* C12: after start playback is Idle, zoom = 1.0, panX = panY = 0 and
\* visibleN = min(50, commitCount); no draw shows a commit before start has
\* assigned the lanes, and every commit a draw shows has its lane.
C12_StartState ==
    /\ event[1] = "start" =>
          /\ ~Playing
          /\ intervals = {}
          /\ zoom = ZoomDefault
          /\ panX = 0
          /\ panY = 0
          /\ visibleN = Min(ResetVisible, CommitCount)
          /\ lastDraw.visibleN = visibleN
    /\ phase = "load" => lastDraw.visibleN = 0
    /\ \A i \in 1..lastDraw.visibleN : commits[i].hash \in DOMAIN pos

\* the start of a history of 10 commits
C12_Witness ==
    /\ event[1] = "start"
    /\ CommitCount = 10
    /\ visibleN = 10
    /\ Cardinality(Painted.nodes) = 10

\* C13: with an empty commit list laneCount is 1 once start has run, visibleN
\* stays 0 under every event, no draw indexes a commit, and the first tick
\* after a play-toggle ends playback.
C13_EmptyHistory ==
    /\ [](CommitCount = 0 =>
             /\ phase = "running" => laneCount = 1
             /\ visibleN = 0
             /\ slider.value = 0
             /\ lastDraw.visibleN = 0
             /\ Painted.nodes = {} /\ Painted.edges = {})
    /\ [][CommitCount = 0 /\ event'[1] = "tick" => ~Playing' /\ intervals' = {}]_vars

\* playback of the empty history ended by its tick, the view panned and zoomed
C13_Witness ==
    /\ CommitCount = 0
    /\ event[1] = "tick"
    /\ ~Playing
    /\ laneCount = 1
    /\ zoom # ZoomDefault
    /\ panX # 0

\* the lines of the log build_data has read
LogRead == event[2].lines
\* the reorderings of n lines
Reorderings(n) == {f \in [1..n -> 1..n] : \A i, j \in 1..n : f[i] = f[j] => i = j}

\* C14: build_data returns the commits ascending by time, as a permutation
\* of the records of the log, commits of equal time in the order in which the
\* log printed them.
C14_SortedStable ==
    event[1] = "build_data" /\ event[2].ok =>
        /\ CommitCount = Len(LogRead)
        /\ \E f \in Reorderings(CommitCount) :
              /\ \A i \in 1..CommitCount :
                    /\ commits[i].hash = LogRead[f[i]][1]
                    /\ commits[i].parents = LogRead[f[i]][2]
                    /\ commits[i].time = LogRead[f[i]][3]
              /\ \A i, j \in 1..CommitCount :
                    i < j =>
                        /\ commits[i].time <= commits[j].time
                        /\ commits[i].time = commits[j].time => f[i] < f[j]

\* a log whose newest line has the largest time and whose other two lines
\* have equal times: the two keep the order of the log
C14_Witness ==
    /\ event[1] = "build_data"
    /\ event[2].ok
    /\ Len(LogRead) = 3
    /\ LogRead[1][3] > LogRead[2][3]
    /\ LogRead[2][3] = LogRead[3][3]
    /\ commits[1].hash = LogRead[2][1]
    /\ commits[2].hash = LogRead[3][1]
    /\ commits[3].hash = LogRead[1][1]

\* C15: when the log command fails the exception leaves main and the run is
\* over, with the output file as it was; the file is written only in the
\* step after build_data has returned, with the bundle it returned.
C15_FailureWritesNothing ==
    /\ [](pc \in {"main", "failed"} => outFile \in {NoFile, StaleFile})
    /\ [][/\ (event'[1] = "build_data" /\ ~event'[2].ok)
                => (pc' = "failed" /\ outFile' = outFile)
          /\ pc # "failed"
          /\ outFile' # outFile
                => (pc = "built" /\ pc' = "written" /\ outFile' = FileWith(Html(commits, tags)))]_vars

\* the log command failed where an earlier run had left its file
C15_Witness ==
    /\ pc = "failed"
    /\ ~event[2].ok
    /\ outFile = StaleFile

\* C16: when the tag lookup fails and the log command does not, build_data
\* returns all the commits of the log with an empty tag map, main does not
\* fail, and its next step writes the page with this bundle.
C16_TagFailureNotFatal ==
    /\ event[1] = "build_data" /\ event[2].ok /\ ~event[3].ok =>
          /\ pc = "built"
          /\ tags = NoTags
          /\ CommitCount = Len(LogRead)
          /\ {commits[i].hash : i \in 1..CommitCount} = {LogRead[i][1] : i \in 1..Len(LogRead)}
    /\ pc = "failed" => ~event[2].ok
    /\ pc = "built" => ENABLED WriteHtml
    /\ pc = "written" => outFile = FileWith(Html(commits, tags))

\* the page written with the commits and no tag
C16_Witness ==
    /\ pc = "written"
    /\ tags = NoTags
    /\ CommitCount = MaxCommits
    /\ outFile = FileWith(Html(commits, NoTags))

Visible == 1..visibleN

\* C18: every redraw paints as nodes exactly the commits with index <
\* visibleN, and as edges exactly the pairs (c, p) with c of index <
\* visibleN, p in c's parent list and p the hash of a commit of index <
\* visibleN; each of these commits has its position, so that no draw fails.
C18_DrawsVisibleGraph ==
    phase = "running" =>
        /\ lastDraw.visibleN = visibleN
        /\ \A i \in Visible : commits[i].hash \in DOMAIN pos
        /\ Painted.nodes = {commits[i].hash : i \in Visible}
        /\ Painted.edges =
              UNION {{<<commits[i].hash, commits[i].parents[k]>> :
                         k \in {m \in 1..Len(commits[i].parents) :
                                  \E j \in Visible : commits[j].hash = commits[i].parents[m]}} :
                     i \in Visible}

\* two commits shown, the second with the first and a commit that is not in
\* the data as its parents: only the edge to the first is painted
C18_Witness ==
    /\ event[1] = "scrub"
    /\ CommitCount = 2
    /\ visibleN = 2
    /\ commits[1].parents = <<>>
    /\ commits[2].parents = <<commits[1].hash, AbsentHash>>
    /\ Painted.edges = {<<commits[2].hash, commits[1].hash>>}

\* the commits that do not follow an earlier first parent
NewLaneCommits == {i \in 1..CommitCount : ~FollowsEarlierParent(i)}

\* C19: a commit whose first parent is missing or not earlier in the
\* sequence gets the lane whose number is the count of such commits before
\* it; the lanes assigned are exactly 0..laneCount-1, and laneCount of a
\* non-empty history is the number of such commits.
C19_NewLanePerUnfollowed ==
    phase = "running" =>
        /\ \A i \in NewLaneCommits :
              LaneAt(i) = Cardinality({j \in NewLaneCommits : j < i})
        /\ CommitCount > 0 =>
              /\ {LaneAt(i) : i \in 1..CommitCount} = 0..(laneCount - 1)
              /\ laneCount = Cardinality(NewLaneCommits)

\* a root, its child, and a commit with a missing first parent and the root
\* as second parent: the third opens lane 1
C19_Witness ==
    /\ phase = "running"
    /\ CommitCount = 3
    /\ NewLaneCommits = {1, 3}
    /\ commits[3].parents = <<AbsentHash, commits[1].hash>>
    /\ LaneAt(2) = 0
    /\ LaneAt(3) = 1
    /\ laneCount = 2

\* the pan at which the pointer would be at the origin: with the pan p0 at a
\* press at P0 it is p0 - P0 * density, and pan = p0 + (Pk - P0) * density
\* at Pk exactly when it still has this value
DragAnchor == <<panX - lastMouse[1] * Dpr, panY - lastMouse[2] * Dpr>>

\* C20: a pointer move while not pressed leaves panX and panY unchanged; a
\* move while pressed adds (pointer position - previous position) times the
\* display density, so that over the moves of a drag the pan changes by
\* (last position - press position) times the density; pressed begins with
\* a press and ends with a release only.
C20_PanFollowsDrag ==
    [][/\ event'[1] = "mousemove" =>
             IF dragging
             THEN /\ lastMouse' \in PointerPositions
                  /\ panX' = panX + (lastMouse'[1] - lastMouse[1]) * Dpr
                  /\ panY' = panY + (lastMouse'[2] - lastMouse[2]) * Dpr
                  /\ DragAnchor' = DragAnchor
                  /\ dragging'
             ELSE UNCHANGED <<panX, panY, lastMouse, dragging>>
       /\ event'[1] = "mousedown" => dragging' /\ UNCHANGED <<panX, panY>>
       /\ event'[1] = "mouseup" => ~dragging' /\ UNCHANGED <<panX, panY>>
       /\ dragging' # dragging => event'[1] \in {"mousedown", "mouseup"}]_vars

\* a move to (1, 2) while pressed that has brought panY to the end of its
\* explored range
C20_Witness ==
    /\ event[1] = "mousemove"
    /\ dragging
    /\ lastMouse = <<1, 2>>
    /\ panY = MaxPan * Dpr
    /\ panX # 0

====
